---- MODULE Spec2Model ----
(***************************************************************************)
(* Model of the PDF semantic search engine of app.py (MoteurRecherchePDF   *)
(* and its FastAPI handlers) and of the offline indexer create_index.py    *)
(* (IndexeurPDF).                                                          *)
(*                                                                         *)
(* Texts are modelled by what the code measures of them: a text is the     *)
(* sequence of the lengths of its words (what str.split() returns) plus    *)
(* the number of whitespace characters it holds, so that len(texte),       *)
(* len(mots) and the length of ' '.join(...) are computed as the code      *)
(* computes them.  chars_par_mot is a Python float; int(a / (l / n)) is    *)
(* modelled by the integer quotient (a * n) \div l, which is what Python   *)
(* computes on every text drawn below (the two can differ by one where     *)
(* a * n / l is a whole number that the float quotient falls just under).  *)
(***************************************************************************)
EXTENDS Integers, Sequences, FiniteSets, TLC

VARIABLES
    app,         \* "arret" | "service": the server process (app.py:134-144)
    chunks,      \* moteur.chunks
    embeddings,  \* moteur.embeddings: Rien (None) or Valeur(sequence of vectors)
    metadata,    \* moteur.metadata
    fichier,     \* the artifact at INDEX_FILE ("index_pdf.pkl")
    upload,      \* the /upload handler in flight and its last response
    requete,     \* a /search request received and not yet answered
    reponse,     \* the last /search response
    script,      \* the create_index.py process
    hist,        \* history: what the last indexing run and save started from
    appel,       \* arguments of a call of decouper_en_chunks
    retour       \* what that call returned or raised

vars == <<app, chunks, embeddings, metadata, fichier, upload, requete,
          reponse, script, hist, appel, retour>>

None == "None"

\* an attribute that holds None or a value (self.embeddings = None, line 31)
Rien == [none |-> TRUE, v |-> <<>>]
Valeur(v) == [none |-> FALSE, v |-> v]

----------------------------------------------------------------------------
(* Program constants *)

TAILLE_CHUNK == 500
OVERLAP == 100
MOTS_PAR_CHUNK_DEFAUT == 100
OVERLAP_MOTS_DEFAUT == 20
LONGUEUR_MIN == 50
MODELE_APP == "sentence-transformers/paraphrase-multilingual-MiniLM-L12-v2"
MODELE_SCRIPT == "sentence-transformers/paraphrase-multilingual-mpnet-base-v2"
NA == "N/A"

----------------------------------------------------------------------------
(* Bounds *)

MaxPages == 2        \* pages of a document given to the chunker
MaxMots == 3         \* words of a page given to the chunker
MaxChunks == 5       \* chunks of an index given to the search

----------------------------------------------------------------------------
(* Python helpers *)

Min(a, b) == IF a < b THEN a ELSE b
Max(a, b) == IF a > b THEN a ELSE b

RECURSIVE Somme(_)
Somme(s) == IF s = <<>> THEN 0 ELSE Head(s) + Somme(Tail(s))

\* s[i:j] for 0 <= i and 0 <= j (0-based, j exclusive, clipped to len(s))
Tranche(s, i, j) == SubSeq(s, i + 1, Min(j, Len(s)))

\* list(range(0, stop, step)) for step # 0; range() raises ValueError on 0
Range(stop, step) ==
    IF step > 0
    THEN [k \in 1..((stop + step - 1) \div step) |-> (k - 1) * step]
    ELSE <<>>

\* a dict is the set of its <<key, value>> pairs
Dict(k, v) == {<<k, v>>}
Get(d, k, defaut) ==
    IF \E kv \in d : kv[1] = k
    THEN (CHOOSE kv \in d : kv[1] = k)[2]
    ELSE defaut

\* len(texte) and len(' '.join(mots))
LenTexte(texte) == Somme(texte.mots) + texte.blancs
LenJoin(mots) == IF mots = <<>> THEN 0 ELSE Somme(mots) + Len(mots) - 1

----------------------------------------------------------------------------
(* decouper_en_chunks: app.py:53-79, identical in create_index.py:35-59 *)

MotsParChunk(texte, taille_chunk) ==
    IF LenTexte(texte) > 0
    THEN (taille_chunk * Len(texte.mots)) \div LenTexte(texte)
    ELSE MOTS_PAR_CHUNK_DEFAUT

OverlapMots(texte, overlap) ==
    IF LenTexte(texte) > 0
    THEN (overlap * Len(texte.mots)) \div LenTexte(texte)
    ELSE OVERLAP_MOTS_DEFAUT

Pas(texte, taille_chunk, overlap) ==
    MotsParChunk(texte, taille_chunk) - OverlapMots(texte, overlap)

\* the window starts whose chunk passes the length test of line 74
Gardes(texte, taille_chunk, overlap) ==
    LET mots == texte.mots
        mpc  == MotsParChunk(texte, taille_chunk)
    IN  SelectSeq(Range(Len(mots), Pas(texte, taille_chunk, overlap)),
                  LAMBDA i : LenJoin(Tranche(mots, i, i + mpc)) > LONGUEUR_MIN)

\* the chunk cut at word i of a page: its text, and where it was cut from
Chunk(page_data, i, mpc) ==
    [texte |-> Tranche(page_data.texte.mots, i, i + mpc),
     page  |-> page_data.numero_page,
     debut |-> i]

ChunksPage(page_data, taille_chunk, overlap) ==
    LET g   == Gardes(page_data.texte, taille_chunk, overlap)
        mpc == MotsParChunk(page_data.texte, taille_chunk)
    IN  [k \in 1..Len(g) |-> Chunk(page_data, g[k], mpc)]

\* MetadataPage with the append of line 76 outside the test of line 74
MetadataPageSansTest(page_data, taille_chunk, overlap) ==
    LET r == Range(Len(page_data.texte.mots),
                   Pas(page_data.texte, taille_chunk, overlap))
    IN  [k \in 1..Len(r) |-> Dict("page", page_data.numero_page)]

MetadataPage(page_data, taille_chunk, overlap) ==
    LET g == Gardes(page_data.texte, taille_chunk, overlap)
    IN  [k \in 1..Len(g) |-> Dict("page", page_data.numero_page)]

RECURSIVE decouper_en_chunks(_, _, _)
decouper_en_chunks(pages_texte, taille_chunk, overlap) ==
    IF pages_texte = <<>>
    THEN [erreur |-> None, chunks |-> <<>>, metadata |-> <<>>]
    ELSE LET page_data == Head(pages_texte)
             reste == decouper_en_chunks(Tail(pages_texte), taille_chunk, overlap)
         IN  IF page_data.texte.mots = <<>>
             THEN reste
             ELSE IF Pas(page_data.texte, taille_chunk, overlap) = 0
             THEN [erreur |-> "ValueError", chunks |-> <<>>, metadata |-> <<>>]
             ELSE IF reste.erreur # None
             THEN reste
             ELSE [erreur   |-> None,
                   chunks   |-> ChunksPage(page_data, taille_chunk, overlap)
                                  \o reste.chunks,
                   metadata |-> MetadataPage(page_data, taille_chunk, overlap)
                                  \o reste.metadata]

----------------------------------------------------------------------------
(* The embedding models: SentenceTransformer.encode.  A model maps a text  *)
(* to a vector of the model's dimension (384 for MiniLM-L12-v2, 768 for    *)
(* mpnet-base-v2, scaled here to 2 and 3), the same vector for the same    *)
(* text.                                                                   *)

Dimension(modele) == IF modele = MODELE_APP THEN 2 ELSE 3

encode1(modele, texte) ==
    [d \in 1..Dimension(modele) |->
        IF d = 1 THEN Len(texte)
        ELSE IF d = 2 THEN Somme(texte) % 7
        ELSE 1]

encode(modele, textes) == [i \in 1..Len(textes) |-> encode1(modele, textes[i])]

----------------------------------------------------------------------------
(* rechercher: app.py:110-132 *)

RECURSIVE Dot(_, _)
Dot(a, b) == IF a = <<>> THEN 0 ELSE Head(a) * Head(b) + Dot(Tail(a), Tail(b))

Signe(x) == IF x < 0 THEN -1 ELSE IF x > 0 THEN 1 ELSE 0

\* dot(e, q) / (norm(e) * norm(q)), app.py:117-119.  The quotient is kept as
\* the fraction sign(dot) * dot^2 / (|e|^2 * |q|^2), which orders as the
\* cosine does; a zero norm gives 0/0, which numpy evaluates to nan.
Similarite(e, q) ==
    IF Dot(e, e) * Dot(q, q) = 0
    THEN [nan |-> TRUE, num |-> 0, den |-> 1]
    ELSE [nan |-> FALSE,
          num |-> Signe(Dot(e, q)) * Dot(e, q) * Dot(e, q),
          den |-> Dot(e, e) * Dot(q, q)]

\* s sorts strictly before t (numpy sorts nan last)
Avant(s, t) == ~s.nan /\ (t.nan \/ s.num * t.den < t.num * s.den)
Egal(s, t) == ~Avant(s, t) /\ ~Avant(t, s)

\* np.argsort(similarities): every order of the 0-based indices in which the
\* values ascend.  The default kind is an unstable sort, so the order of equal
\* values is any of them.
RECURSIVE Tris(_, _)
Tris(sims, S) ==
    IF S = {} THEN {<<>>}
    ELSE UNION {{<<i>> \o t : t \in Tris(sims, S \ {i})} :
                i \in {j \in S : \A k \in S : ~Avant(sims[k + 1], sims[j + 1])}}

argsort(sims) == Tris(sims, 0..(Len(sims) - 1))

\* a[-top_k:][::-1], app.py:121
Derniers(a, top_k) ==
    LET n == Len(a)
        debut == IF top_k > 0 THEN Max(n - top_k, 0) ELSE Min(-top_k, n)
        t == Tranche(a, debut, n)
    IN  [k \in 1..Len(t) |-> t[Len(t) + 1 - k]]

similarities(embs, question_emb) ==
    [i \in 1..Len(embs) |-> Similarite(embs[i], question_emb)]

Resultat(cs, md, sims, top_indices, i) ==
    LET idx == top_indices[i]
    IN  [rang  |-> i,
         score |-> sims[idx + 1],
         texte |-> cs[idx + 1].texte,
         page  |-> IF idx < Len(md) THEN Get(md[idx + 1], "page", NA) ELSE NA]

\* rechercher on the attributes (cs, embs, md), with tri the order np.argsort
\* returned.  embs is not None: the handler and line 112 have tested it.
rechercher(cs, embs, md, question_emb, top_k, tri) ==
    LET sims == similarities(embs, question_emb)
        top_indices == Derniers(tri, top_k)
    IN  IF \E i \in 1..Len(embs) : Len(embs[i]) # Len(question_emb)
        THEN [erreur |-> "ValueError", resultats |-> <<>>]
        ELSE IF \E i \in 1..Len(top_indices) : top_indices[i] >= Len(cs)
        THEN [erreur |-> "IndexError", resultats |-> <<>>]
        ELSE [erreur |-> None,
              resultats |-> [i \in 1..Len(top_indices) |->
                                Resultat(cs, md, sims, top_indices, i)]]

----------------------------------------------------------------------------
(* The artifact at INDEX_FILE.  open(path, 'wb') empties the file and       *)
(* pickle.dump then writes the dict; a file that was opened and not        *)
(* completely written does not unpickle.  modele is the model that         *)
(* computed the embeddings written in the file.                            *)

DataVide == [cles |-> {}, chunks |-> <<>>, embeddings |-> <<>>,
             metadata |-> <<>>, model_name |-> None]

Absent == [existe |-> FALSE, complet |-> FALSE, data |-> DataVide, modele |-> None]
Tronque == [existe |-> TRUE, complet |-> FALSE, data |-> DataVide, modele |-> None]
Ecrit(data, modele) ==
    [existe |-> TRUE, complet |-> TRUE, data |-> data, modele |-> modele]

\* the dict pickled by indexer_pdf, app.py:91-95
DataApp(cs, embs, md) ==
    [cles |-> {"chunks", "embeddings", "metadata"}, chunks |-> cs,
     embeddings |-> embs, metadata |-> md, model_name |-> None]

\* the dict pickled by creer_index, create_index.py:78-83
DataScript(cs, embs, md, model_name) ==
    [cles |-> {"chunks", "embeddings", "metadata", "model_name"}, chunks |-> cs,
     embeddings |-> embs, metadata |-> md, model_name |-> model_name]

\* the attributes of a MoteurRecherchePDF, as __init__ leaves them
Index(cs, embs, md) == [chunks |-> cs, embeddings |-> embs, metadata |-> md]
Construit == Index(<<>>, Rien, <<>>)

\* charger_index with line 107 taking the default whatever the dict holds
charger_indexSansMetadata(idx, f) ==
    IF ~f.existe
    THEN [erreur |-> "FileNotFoundError", index |-> idx]
    ELSE IF ~f.complet
    THEN [erreur |-> "UnpicklingError", index |-> idx]
    ELSE IF "chunks" \notin f.data.cles
    THEN [erreur |-> "KeyError", index |-> idx]
    ELSE IF "embeddings" \notin f.data.cles
    THEN [erreur |-> "KeyError",
          index |-> Index(f.data.chunks, idx.embeddings, idx.metadata)]
    ELSE [erreur |-> None,
          index |-> Index(f.data.chunks, Valeur(f.data.embeddings),
                          [i \in 1..Len(f.data.chunks) |-> {}])]

\* charger_index on an engine whose attributes are idx: the exception it
\* raises, if any, and the attributes it leaves.  app.py:100-108
charger_index(idx, f) ==
    IF ~f.existe
    THEN [erreur |-> "FileNotFoundError", index |-> idx]
    ELSE IF ~f.complet
    THEN [erreur |-> "UnpicklingError", index |-> idx]
    ELSE IF "chunks" \notin f.data.cles
    THEN [erreur |-> "KeyError", index |-> idx]
    ELSE IF "embeddings" \notin f.data.cles
    THEN [erreur |-> "KeyError",
          index |-> Index(f.data.chunks, idx.embeddings, idx.metadata)]
    ELSE [erreur |-> None,
          index |-> Index(f.data.chunks, Valeur(f.data.embeddings),
                          IF "metadata" \in f.data.cles
                          THEN f.data.metadata
                          ELSE [i \in 1..Len(f.data.chunks) |-> {}])]

----------------------------------------------------------------------------
(* The documents uploaded or given to the script *)

Page(n, mots, blancs) ==
    [numero_page |-> n, texte |-> [mots |-> mots, blancs |-> blancs]]

\* page 1 gives two chunks, page 2 is empty
DocA == [filename |-> "a.pdf",
         pages |-> <<Page(1, <<249, 249, 249>>, 2), Page(2, <<>>, 0)>>]
\* one page, one chunk
DocB == [filename |-> "b.pdf", pages |-> <<Page(1, <<60>>, 1)>>]
\* one word longer than taille_chunk
DocC == [filename |-> "c.pdf", pages |-> <<Page(1, <<600>>, 0)>>]
DocTxt == [filename |-> "notes.txt", pages |-> <<>>]

Documents == {DocA, DocB, DocC, DocTxt}
EstPdf(doc) == doc.filename \in {"a.pdf", "b.pdf", "c.pdf"}
DocNomme(nom) == CHOOSE d \in Documents : d.filename = nom

Textes(cs) == [i \in 1..Len(cs) |-> cs[i].texte]

\* the questions asked, as texts
Questions == {<<3, 4>>, <<5>>}
TopKs == {1, 3}

\* artifacts found at INDEX_FILE when the server is first started: none, one
\* written by an earlier version without metadata (line 107), or one that
\* lacks the embeddings
Legacy ==
    LET cs == decouper_en_chunks(DocB.pages, TAILLE_CHUNK, OVERLAP).chunks
    IN  Ecrit([cles |-> {"chunks", "embeddings"}, chunks |-> cs,
               embeddings |-> encode(MODELE_APP, Textes(cs)),
               metadata |-> <<>>, model_name |-> None], MODELE_APP)
SansEmbeddings ==
    LET cs == decouper_en_chunks(DocB.pages, TAILLE_CHUNK, OVERLAP).chunks
    IN  Ecrit([cles |-> {"chunks"}, chunks |-> cs, embeddings |-> <<>>,
               metadata |-> <<>>, model_name |-> None], None)
FichiersInitiaux == {Absent, Legacy, SansEmbeddings}

----------------------------------------------------------------------------
(* State *)

Moteur == Index(chunks, embeddings, metadata)

UploadRepos(statut, chunks_count) ==
    [pc |-> "repos", doc |-> None, pages_texte |-> <<>>,
     statut |-> statut, chunks_count |-> chunks_count]

ScriptRepos == [pc |-> "repos", index |-> Construit, model_name |-> None]

\* run, doc, avant: the outcome of the last indexer_pdf run, its document and
\* the engine it started from; indexe: a load or a run has succeeded in this
\* process; save, favant, sauve: the outcome of the last save, the file it
\* opened and the index it wrote
HistInit == [run |-> "aucun", doc |-> None, avant |-> Construit,
             indexe |-> FALSE, save |-> "aucune", favant |-> Absent,
             sauve |-> Construit]

ReponseInit == [statut |-> 0, resultats |-> <<>>]

\* GET /status: get_status, app.py:475-481
get_status(idx) ==
    [indexed |-> ~idx.embeddings.none,
     chunks_count |-> IF idx.chunks # <<>> THEN Len(idx.chunks) ELSE 0]

\* the event loop runs one handler at a time: upload_pdf is a coroutine that
\* awaits only file.read() (app.py:493) and calls indexer_pdf without
\* awaiting, so from line 497 to its return no other handler runs
BoucleLibre == upload.pc \in {"repos", "lecture"}

Init ==
    /\ app = "arret"
    /\ chunks = <<>>
    /\ embeddings = Rien
    /\ metadata = <<>>
    /\ fichier \in FichiersInitiaux
    /\ upload = UploadRepos(0, 0)
    /\ requete = Rien
    /\ reponse = ReponseInit
    /\ script = ScriptRepos
    /\ hist = HistInit
    /\ appel = Rien
    /\ retour = Rien

----------------------------------------------------------------------------
(* The server process: module start-up, app.py:136-144 *)

varsChunker == <<appel, retour>>

\* moteur = MoteurRecherchePDF(), then charger_index if the file exists; the
\* exception of a failed load is caught and printed
Demarrer ==
    /\ app = "arret"
    /\ script.pc = "repos"
    /\ app' = "service"
    /\ LET r == IF fichier.existe
                THEN charger_index(Construit, fichier)
                ELSE [erreur |-> "FileNotFoundError", index |-> Construit]
       IN  /\ chunks' = r.index.chunks
           /\ embeddings' = r.index.embeddings
           /\ metadata' = r.index.metadata
           /\ hist' = [hist EXCEPT !.indexe = (r.erreur = None)]
    /\ UNCHANGED <<fichier, upload, requete, reponse, script, varsChunker>>

\* the process dies: the engine, the handlers in flight and the requests are
\* lost, the file stays as it is
Arreter ==
    /\ app = "service"
    /\ app' = "arret"
    /\ chunks' = <<>>
    /\ embeddings' = Rien
    /\ metadata' = <<>>
    /\ upload' = UploadRepos(0, 0)
    /\ requete' = Rien
    /\ reponse' = ReponseInit
    /\ hist' = [hist EXCEPT !.run = "aucun", !.doc = None, !.avant = Construit,
                            !.indexe = FALSE,
                            !.save = IF upload.pc = "ecrire"
                                     THEN "interrompue" ELSE @]
    /\ UNCHANGED <<fichier, script, varsChunker>>

----------------------------------------------------------------------------
(* POST /upload: upload_pdf, app.py:483-510, and indexer_pdf, app.py:81-98 *)

\* the except clause of upload_pdf: HTTP 500
Echec ==
    /\ upload' = UploadRepos(500, 0)

\* lines 486-494: a name that does not end in .pdf is refused; otherwise the
\* handler awaits the content
UploadRecevoir(doc) ==
    /\ app = "service"
    /\ upload.pc = "repos"
    /\ upload' = IF EstPdf(doc)
                 THEN [pc |-> "lecture", doc |-> doc.filename,
                       pages_texte |-> <<>>, statut |-> 0, chunks_count |-> 0]
                 ELSE UploadRepos(400, 0)
    /\ UNCHANGED <<app, chunks, embeddings, metadata, fichier, requete,
                   reponse, script, hist, varsChunker>>

\* line 497 enters indexer_pdf; line 83: extraire_texte_pdf returns the pages
\* or raises
Extraire(ok) ==
    /\ app = "service"
    /\ upload.pc = "lecture"
    /\ IF ok
       THEN /\ upload' = [upload EXCEPT !.pc = "decouper",
                             !.pages_texte = DocNomme(upload.doc).pages]
            /\ hist' = [hist EXCEPT !.run = "en cours", !.doc = upload.doc,
                                    !.avant = Moteur]
       ELSE /\ Echec
            /\ hist' = [hist EXCEPT !.run = "echec", !.doc = upload.doc,
                                    !.avant = Moteur]
    /\ UNCHANGED <<app, chunks, embeddings, metadata, fichier, requete,
                   reponse, script, varsChunker>>

\* line 84: self.chunks, self.metadata = self.decouper_en_chunks(pages_texte)
Decouper ==
    /\ app = "service"
    /\ upload.pc = "decouper"
    /\ LET r == decouper_en_chunks(upload.pages_texte, TAILLE_CHUNK, OVERLAP)
       IN  IF r.erreur = None
           THEN /\ chunks' = r.chunks
                /\ metadata' = r.metadata
                /\ upload' = [upload EXCEPT !.pc = "encoder"]
                /\ UNCHANGED hist
           ELSE /\ Echec
                /\ hist' = [hist EXCEPT !.run = "echec"]
                /\ UNCHANGED <<chunks, metadata>>
    /\ UNCHANGED <<app, embeddings, fichier, requete, reponse, script,
                   varsChunker>>

\* line 87: self.embeddings = self.model.encode(self.chunks)
Encoder(ok) ==
    /\ app = "service"
    /\ upload.pc = "encoder"
    /\ IF ok
       THEN /\ embeddings' = Valeur(encode(MODELE_APP, Textes(chunks)))
            /\ upload' = [upload EXCEPT !.pc = "ouvrir"]
            /\ UNCHANGED hist
       ELSE /\ Echec
            /\ hist' = [hist EXCEPT !.run = "echec"]
            /\ UNCHANGED embeddings
    /\ UNCHANGED <<app, chunks, metadata, fichier, requete, reponse, script,
                   varsChunker>>

\* line 90: open(fichier_index, 'wb')
Ouvrir(ok) ==
    /\ app = "service"
    /\ upload.pc = "ouvrir"
    /\ IF ok
       THEN /\ fichier' = Tronque
            /\ upload' = [upload EXCEPT !.pc = "ecrire"]
            /\ hist' = [hist EXCEPT !.save = "en cours", !.favant = fichier]
       ELSE /\ Echec
            /\ hist' = [hist EXCEPT !.run = "echec", !.save = "interrompue",
                                    !.favant = fichier]
            /\ UNCHANGED fichier
    /\ UNCHANGED <<app, chunks, embeddings, metadata, requete, reponse, script,
                   varsChunker>>

\* lines 91-98 and 500-505: pickle.dump, return len(self.chunks), HTTP 200
Ecrire(ok) ==
    /\ app = "service"
    /\ upload.pc = "ecrire"
    /\ IF ok
       THEN /\ fichier' = Ecrit(DataApp(chunks, embeddings.v, metadata), MODELE_APP)
            /\ upload' = UploadRepos(200, Len(chunks))
            /\ hist' = [hist EXCEPT !.run = "ok", !.indexe = TRUE, !.save = "ok",
                                    !.sauve = Moteur]
       ELSE /\ Echec
            /\ hist' = [hist EXCEPT !.run = "echec", !.save = "interrompue"]
            /\ UNCHANGED fichier
    /\ UNCHANGED <<app, chunks, embeddings, metadata, requete, reponse, script,
                   varsChunker>>

----------------------------------------------------------------------------
(* POST /search: search, app.py:512-522 *)

RechercheRecevoir(question, top_k) ==
    /\ app = "service"
    /\ requete = Rien
    /\ requete' = Valeur([question |-> question, top_k |-> top_k])
    /\ UNCHANGED <<app, chunks, embeddings, metadata, fichier, upload, reponse,
                   script, hist, varsChunker>>

\* the response of the handler on the engine idx, tri being what np.argsort
\* returned
Repondre(idx, question, top_k, tri) ==
    LET r == rechercher(idx.chunks, idx.embeddings.v, idx.metadata,
                        encode1(MODELE_APP, question), top_k, tri)
    IN  IF r.erreur = None
        THEN [statut |-> 200, resultats |-> r.resultats]
        ELSE [statut |-> 500, resultats |-> <<>>]

\* the orders np.argsort can return on the engine idx; when np.dot raises on
\* the dimensions no sort is reached
TrisPossibles(idx, question) ==
    LET q == encode1(MODELE_APP, question)
    IN  IF \E i \in 1..Len(idx.embeddings.v) : Len(idx.embeddings.v[i]) # Len(q)
        THEN {<<>>}
        ELSE argsort(similarities(idx.embeddings.v, q))

RechercheServir ==
    /\ app = "service"
    /\ requete # Rien
    /\ BoucleLibre
    /\ IF embeddings = Rien
       THEN reponse' = [statut |-> 400, resultats |-> <<>>]
       ELSE \E tri \in TrisPossibles(Moteur, requete.v.question) :
               reponse' = Repondre(Moteur, requete.v.question,
                                   requete.v.top_k, tri)
    /\ requete' = Rien
    /\ UNCHANGED <<app, chunks, embeddings, metadata, fichier, upload, script,
                   hist, varsChunker>>

----------------------------------------------------------------------------
(* create_index.py: creer_index, lines 61-83.  The script is run where the  *)
(* server is not running and its file is deployed with the server.         *)

\* lines 68-77: extraction, chunking and embedding into locals, then open
ScriptOuvrir(doc) ==
    /\ app = "arret"
    /\ script.pc = "repos"
    /\ EstPdf(doc)
    /\ LET r == decouper_en_chunks(doc.pages, TAILLE_CHUNK, OVERLAP)
       IN  /\ r.erreur = None
           /\ script' = [pc |-> "ecrire", model_name |-> None,
                         index |-> Index(r.chunks,
                                         Valeur(encode(MODELE_SCRIPT, Textes(r.chunks))),
                                         r.metadata)]
    /\ fichier' = Tronque
    /\ hist' = [hist EXCEPT !.save = "en cours", !.favant = fichier]
    /\ UNCHANGED <<app, chunks, embeddings, metadata, upload, requete, reponse,
                   varsChunker>>

\* lines 78-83: the dict is built (model_name looked up in the model card,
\* 'unknown' when it has none) and dumped, or the write is interrupted
ScriptEcrire(ok, model_name) ==
    /\ app = "arret"
    /\ script.pc = "ecrire"
    /\ IF ok
       THEN /\ fichier' = Ecrit(DataScript(script.index.chunks,
                                           script.index.embeddings.v,
                                           script.index.metadata, model_name),
                                MODELE_SCRIPT)
            /\ hist' = [hist EXCEPT !.save = "ok", !.sauve = script.index]
       ELSE /\ hist' = [hist EXCEPT !.save = "interrompue"]
            /\ UNCHANGED fichier
    /\ script' = ScriptRepos
    /\ UNCHANGED <<app, chunks, embeddings, metadata, upload, requete, reponse,
                   varsChunker>>

----------------------------------------------------------------------------

Next ==
    \/ Demarrer
    \/ Arreter
    \/ \E doc \in Documents : UploadRecevoir(doc)
    \/ \E ok \in BOOLEAN : Extraire(ok)
    \/ Decouper
    \/ \E ok \in BOOLEAN : Encoder(ok)
    \/ \E ok \in BOOLEAN : Ouvrir(ok)
    \/ \E ok \in BOOLEAN : Ecrire(ok)
    \/ \E q \in Questions, k \in TopKs : RechercheRecevoir(q, k)
    \/ RechercheServir
    \/ \E doc \in Documents : ScriptOuvrir(doc)
    \/ \E ok \in BOOLEAN, mn \in {MODELE_SCRIPT, "unknown"} : ScriptEcrire(ok, mn)

Spec == Init /\ [][Next]_vars

----------------------------------------------------------------------------
(* Properties of the engine, under Spec *)

\* the index a successful run on the document builds, if chunking succeeds
NouvelIndex(nom) ==
    LET r == decouper_en_chunks(DocNomme(nom).pages, TAILLE_CHUNK, OVERLAP)
    IN  IF r.erreur # None THEN {}
        ELSE {Index(r.chunks, Valeur(encode(MODELE_APP, Textes(r.chunks))),
                    r.metadata)}

\* a file that holds a complete index
Valide(f) == f.existe /\ f.complet /\ {"chunks", "embeddings"} \subseteq f.data.cles

\* this step answers a search request
Servie == app = "service" /\ requete # Rien /\ requete' = Rien /\ app' = "service"

\* C1: when an indexing run that started with an index loaded has failed, the
\* engine holds exactly the chunks, embeddings and metadata it held when the
\* run started.
C1_IndexIntactApresEchec ==
    (hist.run = "echec" /\ ~hist.avant.embeddings.none) => Moteur = hist.avant

\* C2: a search answered after a re-indexing run has started reads chunks,
\* embeddings and metadata that are together the index loaded before the run
\* or together the index the run builds.
C2_RechercheSansMelange ==
    [][(Servie /\ hist.run # "aucun" /\ ~hist.avant.embeddings.none)
          => Moteur \in {hist.avant} \cup NouvelIndex(hist.doc)]_vars

\* C3: when a save to a path that held a valid index has been interrupted, the
\* file at the path is still that valid index.
C3_FichierIntactApresInterruption ==
    (hist.save = "interrompue" /\ Valide(hist.favant)) => fichier = hist.favant

\* C4: between operations, chunks, embeddings and metadata have the same
\* length, and with no embeddings loaded there are no chunks and no metadata.
C4_MemesLongueurs ==
    (app = "service" /\ BoucleLibre) =>
        /\ Len(metadata) = Len(chunks)
        /\ IF embeddings.none THEN Len(chunks) = 0
           ELSE Len(embeddings.v) = Len(chunks)

\* C7: while no load and no indexing run has succeeded, a search is answered
\* with the not-indexed error and no result.
C7_NonIndexe ==
    [][(Servie /\ ~hist.indexe)
          => (reponse'.statut = 400 /\ reponse'.resultats = <<>>)]_vars

\* C8: a load that leaves embeddings in the engine loaded an artifact whose
\* embeddings were computed by the engine's model.
C8_ModeleVerifieAuChargement ==
    [][(app = "arret" /\ app' = "service" /\ ~embeddings'.none)
          => fichier.modele = MODELE_APP]_vars

\* this step is a start-up whose load of an existing file raised
ChargementEchoue ==
    app = "arret" /\ app' = "service" /\ fichier.existe /\ ~hist'.indexe

\* C11: after a load that failed the engine holds no chunks, no embeddings
\* and no metadata, and status reports no index and 0 chunks.
C11_RienApresChargementEchoue ==
    [][ChargementEchoue =>
          /\ Moteur' = Construit
          /\ get_status(Moteur') = [indexed |-> FALSE, chunks_count |-> 0]]_vars

\* C12: a start-up that loads the artifact the last save wrote leaves in the
\* engine the chunks, embeddings and metadata that were saved, in the same
\* order; a start-up that loads a complete artifact without metadata leaves
\* the artifact's chunks and embeddings and as many metadata records as
\* chunks, each without a page, so that the page looked up is "N/A".
C12_AllerRetour ==
    [][(app = "arret" /\ app' = "service") =>
          /\ hist.save = "ok" => Moteur' = hist.sauve
          /\ (Valide(fichier) /\ "metadata" \notin fichier.data.cles) =>
                /\ chunks' = fichier.data.chunks
                /\ embeddings' = Valeur(fichier.data.embeddings)
                /\ Len(metadata') = Len(chunks')
                /\ \A i \in 1..Len(metadata') :
                      Get(metadata'[i], "page", NA) = NA]_vars

\* the server has been started on the two-chunk index a save had written
C12_Temoin ==
    /\ app = "service"
    /\ hist.save = "ok"
    /\ hist.run = "aucun"
    /\ hist.indexe
    /\ Moteur = hist.sauve
    /\ Len(chunks) = 2
    /\ fichier.data.metadata = metadata

\* C9: a search request received while an index is loaded and an indexing run
\* is in progress can be answered at once.
C9_RechercheNonBloquee ==
    (app = "service" /\ requete # Rien /\ ~embeddings.none /\ upload.pc # "repos")
        => ENABLED RechercheServir

----------------------------------------------------------------------------
(* decouper_en_chunks as a function: SpecChunker calls it once on pages,   *)
(* taille_chunk and overlap drawn from bounded sets.                       *)

Longueurs == {30, 600}
Parametres == {<<TAILLE_CHUNK, OVERLAP>>, <<100, 500>>, <<120, 40>>}

SeqsBornees(S, n) == UNION {[1..k -> S] : k \in 0..n}

\* the texts of pages: words separated by single spaces
TextesEntree ==
    {[mots |-> m, blancs |-> Max(Len(m) - 1, 0)] : m \in SeqsBornees(Longueurs, MaxMots)}

\* what extraire_texte_pdf returns: the pages numbered from 1 (lines 43-48)
PagesEntree ==
    {[i \in 1..Len(ts) |-> [numero_page |-> i, texte |-> ts[i]]] :
        ts \in SeqsBornees(TextesEntree, MaxPages)}

varsMoteur == <<app, chunks, embeddings, metadata, fichier, upload, requete,
                reponse, script, hist>>

InitChunker ==
    /\ app = "arret"
    /\ chunks = <<>>
    /\ embeddings = Rien
    /\ metadata = <<>>
    /\ fichier = Absent
    /\ upload = UploadRepos(0, 0)
    /\ requete = Rien
    /\ reponse = ReponseInit
    /\ script = ScriptRepos
    /\ hist = HistInit
    /\ \E pages \in PagesEntree, p \in Parametres :
          appel = Valeur([pages_texte |-> pages, taille_chunk |-> p[1],
                          overlap |-> p[2]])
    /\ retour = Rien

AppelDecouper ==
    /\ appel # Rien
    /\ retour = Rien
    /\ retour' = Valeur(decouper_en_chunks(appel.v.pages_texte,
                                           appel.v.taille_chunk, appel.v.overlap))
    /\ UNCHANGED <<appel, varsMoteur>>

SpecChunker == InitChunker /\ [][AppelDecouper]_vars

\* the pages of the call that have at least one word
PagesAvecMots ==
    {i \in 1..Len(appel.v.pages_texte) : appel.v.pages_texte[i].texte.mots # <<>>}

\* the starts of the chunks returned for page i
DebutsRendus(i) ==
    {retour.v.chunks[k].debut :
        k \in {j \in 1..Len(retour.v.chunks) : retour.v.chunks[j].page = i}}

\* the starts the chunker keeps on page i when it advances by max(pas, 1)
DebutsAttendus(i) ==
    LET texte == appel.v.pages_texte[i].texte
        mpc == MotsParChunk(texte, appel.v.taille_chunk)
        pas == Max(Pas(texte, appel.v.taille_chunk, appel.v.overlap), 1)
    IN  {d \in 0..(Len(texte.mots) - 1) :
            /\ d % pas = 0
            /\ LenJoin(Tranche(texte.mots, d, d + mpc)) > LONGUEUR_MIN}

\* C5: the chunker returns on every input, and on every page with words the
\* chunks it keeps are those of the windows that start every
\* max(mots_par_chunk - overlap_mots, 1) words.
C5_PasAuMoinsUn ==
    retour # Rien =>
        /\ retour.v.erreur = None
        /\ \A i \in PagesAvecMots : DebutsRendus(i) = DebutsAttendus(i)

\* C10: when the chunker returns, it returns as many metadata records as
\* chunks, the record of a chunk holds the number of the page whose words the
\* chunk is made of, the chunks are in page order and in window order within
\* a page, and no chunk and no record is of a page without words.
C10_MetadataAlignees ==
    (retour # Rien /\ retour.v.erreur = None) =>
        LET cs == retour.v.chunks
            md == retour.v.metadata
            pages == appel.v.pages_texte
        IN  /\ Len(md) = Len(cs)
            /\ \A k \in 1..Len(cs) :
                  /\ cs[k].page \in PagesAvecMots
                  /\ cs[k].texte =
                       Tranche(pages[cs[k].page].texte.mots, cs[k].debut,
                               cs[k].debut + MotsParChunk(pages[cs[k].page].texte,
                                                          appel.v.taille_chunk))
                  /\ cs[k].texte # <<>>
                  /\ k <= Len(md) => md[k] = Dict("page", cs[k].page)
            /\ \A k \in 1..Len(md) :
                  \A i \in 1..Len(pages) :
                      pages[i].texte.mots = <<>> => Get(md[k], "page", NA) # i
            /\ \A k \in 1..(Len(cs) - 1) :
                  \/ cs[k].page < cs[k + 1].page
                  \/ cs[k].page = cs[k + 1].page /\ cs[k].debut < cs[k + 1].debut

\* a call on an empty page followed by a page that gives two chunks
C10_Temoin ==
    /\ retour # Rien
    /\ retour.v.erreur = None
    /\ Len(appel.v.pages_texte) = 2
    /\ appel.v.pages_texte[1].texte.mots = <<>>
    /\ Len(retour.v.chunks) = 2
    /\ retour.v.chunks[1].debut < retour.v.chunks[2].debut

----------------------------------------------------------------------------
(* rechercher as a function: SpecRecherche answers search requests on an    *)
(* engine that holds any index of at most MaxChunks chunks.                *)

Vecteurs == {<<2, 1>>, <<1, 2>>, <<1, 1>>, <<0, 1>>}

\* an index of n chunks with distinct texts, one per page
ChunksEntree(n) == [i \in 1..n |-> [texte |-> <<50 + i>>, page |-> i, debut |-> 0]]
MetadataEntree(n) == [i \in 1..n |-> Dict("page", i)]

InitRecherche ==
    /\ app = "service"
    /\ \E n \in 1..MaxChunks :
          /\ chunks = ChunksEntree(n)
          /\ metadata = MetadataEntree(n)
          /\ \E embs \in [1..n -> Vecteurs] : embeddings = Valeur(embs)
    /\ fichier = Absent
    /\ upload = UploadRepos(0, 0)
    /\ requete = Rien
    /\ reponse = ReponseInit
    /\ script = ScriptRepos
    /\ hist = [HistInit EXCEPT !.indexe = TRUE]
    /\ appel = Rien
    /\ retour = Rien

NextRecherche ==
    \/ \E q \in Questions, k \in TopKs : RechercheRecevoir(q, k)
    \/ RechercheServir

SpecRecherche == InitRecherche /\ [][NextRecherche]_vars

\* the 0-based indices of the top_k largest similarities, largest first, the
\* lower index first among equal similarities
Classement(sims, top_k) ==
    LET n == Len(sims)
        Rang(j) == 1 + Cardinality({k \in 1..n :
                          \/ Avant(sims[j], sims[k])
                          \/ Egal(sims[j], sims[k]) /\ k < j})
    IN  [r \in 1..Min(top_k, n) |-> (CHOOSE j \in 1..n : Rang(j) = r) - 1]

\* C6: a search with a positive top_k on a loaded index returns the chunks of
\* the top_k largest similarities, largest first, ranked 1, 2, ..., the lower
\* index first among equal similarities.
C6_ClassementStable ==
    [][(Servie /\ ~embeddings.none /\ requete.v.top_k > 0) =>
          LET sims == similarities(embeddings.v,
                                   encode1(MODELE_APP, requete.v.question))
              attendu == Classement(sims, requete.v.top_k)
              res == reponse'.resultats
          IN  /\ reponse'.statut = 200
              /\ Len(res) = Len(attendu)
              /\ \A i \in 1..Len(res) :
                    /\ res[i].rang = i
                    /\ res[i].texte = chunks[attendu[i] + 1].texte
                    /\ res[i].score = sims[attendu[i] + 1]]_vars

----------------------------------------------------------------------------
(* rechercher on embeddings of zero norm: SpecNorme is SpecRecherche with   *)
(* the zero vector among the embeddings the index can hold.                *)

VecteursNorme == Vecteurs \cup {<<0, 0>>}

InitNorme ==
    /\ app = "service"
    /\ \E n \in 1..MaxChunks :
          /\ chunks = ChunksEntree(n)
          /\ metadata = MetadataEntree(n)
          /\ \E embs \in [1..n -> VecteursNorme] : embeddings = Valeur(embs)
    /\ fichier = Absent
    /\ upload = UploadRepos(0, 0)
    /\ requete = Rien
    /\ reponse = ReponseInit
    /\ script = ScriptRepos
    /\ hist = [HistInit EXCEPT !.indexe = TRUE]
    /\ appel = Rien
    /\ retour = Rien

SpecNorme == InitNorme /\ [][NextRecherche]_vars

\* the embedding of the chunk a result is about (the texts are distinct)
EmbeddingDe(texte) ==
    embeddings.v[CHOOSE j \in 1..Len(chunks) : chunks[j].texte = texte]

\* C13: every score a search returns is a number between -1 and 1, and the
\* score of a chunk whose embedding has zero norm is 0.
C13_ScoreDefini ==
    [][(Servie /\ ~embeddings.none) =>
          /\ reponse'.statut = 200
          /\ \A i \in 1..Len(reponse'.resultats) :
                LET r == reponse'.resultats[i]
                    e == EmbeddingDe(r.texte)
                IN  /\ ~r.score.nan
                    /\ -r.score.den <= r.score.num
                    /\ r.score.num <= r.score.den
                    /\ Dot(e, e) = 0 => r.score.num = 0]_vars

====
